---- MODULE Spec2Model ----
(***************************************************************************)
(* Football league manager: the relational store (db/schema.sql), its seed *)
(* (db/seed.sql) and the request handlers of the express server, modelled  *)
(* as one state machine.  Every handler is one atomic action: the server   *)
(* uses the synchronous better-sqlite3 driver, so a handler runs to its    *)
(* response before the next request is looked at.  The event handler is    *)
(* modelled a second time statement by statement, for event submissions    *)
(* whose store statements interleave (several server processes on one      *)
(* football.db: the store serialises statements, not handlers).            *)
(***************************************************************************)
EXTENDS Integers, Sequences, FiniteSets, TLC

VARIABLES
    teams,              \* table teams:          id -> [name]
    players,            \* table players:        id -> [team_id, age, counters]
    competitions,       \* table competitions:   id -> [name, type, min_squad, max_squad, age_limit]
    registrations,      \* table registrations:  set of <<team_id, competition_id>>
    matches,            \* table matches:        id -> [competition_id, home/away, date_time, status, scores]
    match_events,       \* table match_events:   id -> [match_id, minute, type, player_id, team_id]
    sqlite_sequence,    \* AUTOINCREMENT high-water mark of every table
    squad_at_reg,       \* history: the squad (count, max age) read when a registration row was inserted
    res,                \* the response of the last request
    submissions         \* event submissions run statement by statement: position, body, the match row read

store == <<teams, players, competitions, registrations, matches, match_events,
           sqlite_sequence, squad_at_reg>>
vars == <<teams, players, competitions, registrations, matches, match_events,
          sqlite_sequence, squad_at_reg, res, submissions>>

-----------------------------------------------------------------------------
(* Bounds of the model. *)

\* rows the teams / players / competitions / matches / match_events tables have held when a
\* request that creates another is no longer taken
MaxTeams == 3
MaxPlayers == 7
MaxCompetitions == 3
MaxMatches == 3
MaxEvents == 2
\* event submissions whose statements interleave
MaxSubmissions == 2
\* server starts, the first included
MaxStarts == 3

-----------------------------------------------------------------------------
(* Values. *)

\* SQL NULL / JS null for an id, an age limit or an aggregate over no rows (ids start at 1)
NULL == 0

\* The player_id and team_id of an event body are whatever JSON the request
\* holds.  A number, or null, is written as itself; the string that spells the
\* integer n ("1" for 1) is written 0 - n, which no id and no number of the
\* model is.
Spelled(n) == 0 - n

\* INTEGER column affinity: text that spells an integer is stored, and
\* compared with a stored id, as that integer
Affinity(v) == IF v < 0 THEN 0 - v ELSE v

EventTypes == {"GOAL", "ASSIST", "YELLOW", "RED", "SUB", "OWN_GOAL"}
Statuses == {"SCHEDULED", "IN_PLAY", "FINISHED"}
CompetitionTypes == {"LEAGUE", "TOURNAMENT"}

MinMinute == 0
MaxMinute == 130
MinAge == 10
MaxAge == 55

\* a removed row: f without key k
Without(f, k) == [i \in DOMAIN f \ {k} |-> f[i]]

\* an inserted row
With(f, k, row) == [i \in DOMAIN f \cup {k} |-> IF i = k THEN row ELSE f[i]]

Max(S) == CHOOSE x \in S : \A y \in S : y <= x

-----------------------------------------------------------------------------
(* The seeded store: schema.sql then seed.sql on an empty database. *)

NewPlayer(team_id, age) ==
    [team_id |-> team_id, age |-> age, appearances |-> 0, goals |-> 0,
     assists |-> 0, yellow_cards |-> 0, red_cards |-> 0]

NewMatch(competition_id, home_team_id, away_team_id, date_time) ==
    [competition_id |-> competition_id, home_team_id |-> home_team_id,
     away_team_id |-> away_team_id, date_time |-> date_time,
     status |-> "SCHEDULED", home_score |-> 0, away_score |-> 0]

SeedTeams == <<[name |-> "Falcon FC"], [name |-> "River United"]>>

SeedPlayers ==
    <<NewPlayer(1, 28), NewPlayer(1, 24), NewPlayer(1, 26),
      NewPlayer(2, 29), NewPlayer(2, 22), NewPlayer(2, 25)>>

SeedCompetitions ==
    <<[name |-> "National League", type |-> "LEAGUE",
       min_squad |-> 16, max_squad |-> 35, age_limit |-> NULL],
      [name |-> "U23 Cup", type |-> "TOURNAMENT",
       min_squad |-> 11, max_squad |-> 25, age_limit |-> 23]>>

SeedRegistrations == {<<1, 1>>, <<2, 1>>}

SeedMatches == <<NewMatch(1, 1, 2, "seed+1day")>>

\* SELECT COUNT(*) as c, MAX(age) as max_age FROM players WHERE team_id = ?
SquadQuery(rows, team_id) ==
    LET squad == {p \in DOMAIN rows : rows[p].team_id = team_id}
    IN  [c |-> Cardinality(squad),
         max_age |-> IF squad = {} THEN NULL ELSE Max({rows[p].age : p \in squad})]

Response(op, status) == [op |-> op, status |-> status, cid |-> NULL, rows |-> <<>>]

\* a submission that has not arrived: no body, no match row read
NoSubmission ==
    [pc |-> "idle", id |-> NULL, minute |-> 0, type |-> "", player_id |-> NULL,
     team_id |-> NULL, match |-> NewMatch(NULL, NULL, NULL, ""), status |-> 0]

Init ==
    /\ teams = SeedTeams
    /\ players = SeedPlayers
    /\ competitions = SeedCompetitions
    /\ registrations = SeedRegistrations
    /\ matches = SeedMatches
    /\ match_events = <<>>
    /\ sqlite_sequence = [teams |-> Len(SeedTeams), players |-> Len(SeedPlayers),
                          competitions |-> Len(SeedCompetitions),
                          matches |-> Len(SeedMatches), match_events |-> 0]
    /\ squad_at_reg = [r \in SeedRegistrations |-> SquadQuery(SeedPlayers, r[1])]
    /\ res = Response("listen", 200)
    /\ submissions = [r \in 1..MaxSubmissions |-> NoSubmission]

-----------------------------------------------------------------------------
(* Teams. *)

\* UNIQUE(name): another row already holds the name (compared byte by byte)
NameTaken(rows, name, except) ==
    \E t \in DOMAIN rows : t # except /\ rows[t].name = name

\* POST /api/teams
CreateTeam(name) ==
    IF NameTaken(teams, name, NULL)
    THEN /\ res' = Response("team", 400)
         /\ UNCHANGED store
    ELSE LET id == sqlite_sequence.teams + 1
         IN  /\ teams' = With(teams, id, [name |-> name])
             /\ sqlite_sequence' = [sqlite_sequence EXCEPT !.teams = id]
             /\ res' = Response("team", 201)
             /\ UNCHANGED <<players, competitions, registrations, matches,
                            match_events, squad_at_reg>>

\* PUT /api/teams/:id
UpdateTeam(id, name) ==
    IF id \in DOMAIN teams /\ NameTaken(teams, name, id)
    THEN \* the UPDATE throws outside any try
         /\ res' = Response("team", 500)
         /\ UNCHANGED store
    ELSE /\ teams' = [t \in DOMAIN teams |->
                        IF t = id THEN [teams[t] EXCEPT !.name = name] ELSE teams[t]]
         /\ res' = Response("team", 200)
         /\ UNCHANGED <<players, competitions, registrations, matches, match_events,
                        sqlite_sequence, squad_at_reg>>

\* match_events with ON DELETE CASCADE on player_id and team_id too
EventsAfterDeleteCascading(events, kept_matches, gone_players, gone_teams) ==
    [e \in {x \in DOMAIN events :
                /\ events[x].match_id \in kept_matches
                /\ events[x].player_id \notin gone_players
                /\ events[x].team_id \notin gone_teams} |-> events[e]]

\* match_events after the rows of `gone_players` and `gone_teams` and the matches
\* other than `kept_matches` are deleted: ON DELETE CASCADE on match_id,
\* ON DELETE SET NULL on player_id and team_id
EventsAfterDelete(events, kept_matches, gone_players, gone_teams) ==
    [e \in {x \in DOMAIN events : events[x].match_id \in kept_matches} |->
        [events[e] EXCEPT
            !.player_id = IF @ \in gone_players THEN NULL ELSE @,
            !.team_id = IF @ \in gone_teams THEN NULL ELSE @]]

\* DELETE /api/teams/:id, with the cascades of the schema
DeleteTeam(id) ==
    LET gone_players == {p \in DOMAIN players : players[p].team_id = id}
        kept_matches == {m \in DOMAIN matches :
                           matches[m].home_team_id # id /\ matches[m].away_team_id # id}
        kept_regs == {r \in registrations : r[1] # id}
    IN  /\ teams' = Without(teams, id)
        /\ players' = [p \in DOMAIN players \ gone_players |-> players[p]]
        /\ registrations' = kept_regs
        /\ squad_at_reg' = [r \in kept_regs |-> squad_at_reg[r]]
        /\ matches' = [m \in kept_matches |-> matches[m]]
        /\ match_events' = EventsAfterDelete(match_events, kept_matches, gone_players, {id})
        /\ res' = Response("team", 200)
        /\ UNCHANGED <<competitions, sqlite_sequence>>

-----------------------------------------------------------------------------
(* Players. *)

\* the constraints of table players on a row
PlayerRowAccepted(row) ==
    /\ row.team_id \in DOMAIN teams
    /\ row.age >= MinAge /\ row.age <= MaxAge

\* POST /api/players
CreatePlayer(team_id, age) ==
    IF ~(team_id > 0 /\ age >= MinAge /\ age <= MaxAge)
    THEN \* PlayerSchema
         /\ res' = Response("player", 400)
         /\ UNCHANGED store
    ELSE IF ~PlayerRowAccepted(NewPlayer(team_id, age))
    THEN /\ res' = Response("player", 400)
         /\ UNCHANGED store
    ELSE LET id == sqlite_sequence.players + 1
         IN  /\ players' = With(players, id, NewPlayer(team_id, age))
             /\ sqlite_sequence' = [sqlite_sequence EXCEPT !.players = id]
             /\ res' = Response("player", 201)
             /\ UNCHANGED <<teams, competitions, registrations, matches,
                            match_events, squad_at_reg>>

PlayerFields ==
    {"team_id", "age", "appearances", "goals", "assists", "yellow_cards", "red_cards"}

\* UPDATE players SET f = ?, ... : the row with the allowed fields of the body written
Assigned(row, body) ==
    [f \in DOMAIN row |->
        IF f \in DOMAIN body /\ f \in PlayerFields THEN body[f] ELSE row[f]]

\* PUT /api/players/:id
UpdatePlayer(id, body) ==
    IF DOMAIN body \cap PlayerFields = {} \/ id \notin DOMAIN players
    THEN \* { updated: 0 }
         /\ res' = Response("player", 200)
         /\ UNCHANGED store
    ELSE IF ~PlayerRowAccepted(Assigned(players[id], body))
    THEN \* the UPDATE throws outside any try
         /\ res' = Response("player", 500)
         /\ UNCHANGED store
    ELSE /\ players' = [players EXCEPT ![id] = Assigned(@, body)]
         /\ res' = Response("player", 200)
         /\ UNCHANGED <<teams, competitions, registrations, matches, match_events,
                        sqlite_sequence, squad_at_reg>>

\* DELETE /api/players/:id
DeletePlayer(id) ==
    /\ players' = Without(players, id)
    /\ match_events' = EventsAfterDelete(match_events, DOMAIN matches, {id}, {})
    /\ res' = Response("player", 200)
    /\ UNCHANGED <<teams, competitions, registrations, matches, sqlite_sequence,
                   squad_at_reg>>

-----------------------------------------------------------------------------
(* Competitions and registration. *)

\* POST /api/competitions
CreateCompetition(row) ==
    IF NameTaken(competitions, row.name, NULL) \/ row.type \notin CompetitionTypes
    THEN /\ res' = Response("competition", 400)
         /\ UNCHANGED store
    ELSE LET id == sqlite_sequence.competitions + 1
         IN  /\ competitions' = With(competitions, id, row)
             /\ sqlite_sequence' = [sqlite_sequence EXCEPT !.competitions = id]
             /\ res' = Response("competition", 201)
             /\ UNCHANGED <<teams, players, registrations, matches, match_events,
                            squad_at_reg>>

\* the squad-eligibility checks of a registration
Eligible(squad, comp) ==
    /\ ~(squad.c < comp.min_squad)
    /\ ~(squad.c > comp.max_squad)
    /\ ~(comp.age_limit # NULL /\ squad.max_age > comp.age_limit)

\* POST /api/competitions/:id/register
Register(competition_id, team_id) ==
    IF competition_id \notin DOMAIN competitions
    THEN /\ res' = Response("register", 404)
         /\ UNCHANGED store
    ELSE LET comp == competitions[competition_id]
             squad == SquadQuery(players, team_id)
             row == <<team_id, competition_id>>
         IN  IF ~Eligible(squad, comp)
             THEN /\ res' = Response("register", 400)
                  /\ UNCHANGED store
             ELSE IF team_id \notin DOMAIN teams \/ row \in registrations
             THEN \* FOREIGN KEY / PRIMARY KEY: the INSERT throws inside the try
                  /\ res' = Response("register", 400)
                  /\ UNCHANGED store
             ELSE /\ registrations' = registrations \cup {row}
                  /\ squad_at_reg' = [r \in registrations \cup {row} |->
                                        IF r = row THEN squad ELSE squad_at_reg[r]]
                  /\ res' = Response("register", 201)
                  /\ UNCHANGED <<teams, players, competitions, matches, match_events,
                                 sqlite_sequence>>

-----------------------------------------------------------------------------
(* POST /api/matches *)

CreateMatch(competition_id, home_team_id, away_team_id, date_time) ==
    IF ~(home_team_id > 0 /\ away_team_id > 0 /\ home_team_id # away_team_id)
    THEN \* MatchSchema
         /\ res' = Response("match", 400)
         /\ UNCHANGED store
    ELSE IF \/ competition_id # NULL /\ competition_id \notin DOMAIN competitions
            \/ home_team_id \notin DOMAIN teams
            \/ away_team_id \notin DOMAIN teams
            \/ \E m \in DOMAIN matches :
                  /\ matches[m].home_team_id = home_team_id
                  /\ matches[m].away_team_id = away_team_id
                  /\ matches[m].date_time = date_time
    THEN \* FOREIGN KEY / UNIQUE: the INSERT throws inside the try
         /\ res' = Response("match", 400)
         /\ UNCHANGED store
    ELSE LET id == sqlite_sequence.matches + 1
         IN  /\ matches' = With(matches, id,
                    NewMatch(competition_id, home_team_id, away_team_id, date_time))
             /\ sqlite_sequence' = [sqlite_sequence EXCEPT !.matches = id]
             /\ res' = Response("match", 201)
             /\ UNCHANGED <<teams, players, competitions, registrations,
                            match_events, squad_at_reg>>

-----------------------------------------------------------------------------
(* POST /api/matches/:id/status *)

SetStatus(id, status) ==
    IF status \notin Statuses
    THEN /\ res' = Response("status", 400)
         /\ UNCHANGED store
    ELSE /\ matches' = [m \in DOMAIN matches |->
                          IF m = id THEN [matches[m] EXCEPT !.status = status]
                          ELSE matches[m]]
         /\ res' = Response("status", 200)
         /\ UNCHANGED <<teams, players, competitions, registrations, match_events,
                        sqlite_sequence, squad_at_reg>>

-----------------------------------------------------------------------------
(* POST /api/matches/:id/event *)

\* match_events with foreign_keys left OFF: only the CHECK constraints
EventRowAcceptedUnenforced(id, minute, type, player_id, team_id) ==
    /\ minute >= MinMinute /\ minute <= MaxMinute
    /\ type \in EventTypes

\* the constraints of table match_events on an inserted row (foreign_keys = ON)
EventRowAccepted(id, minute, type, player_id, team_id) ==
    /\ minute >= MinMinute /\ minute <= MaxMinute
    /\ type \in EventTypes
    /\ id \in DOMAIN matches
    /\ player_id # NULL => player_id \in DOMAIN players
    /\ team_id # NULL => team_id \in DOMAIN teams

\* boolean | boolean
XorAsOr(a, b) == a \/ b

\* boolean ^ boolean
Xor(a, b) == a # b

HomeInc(type, team_id, match) ==
    IF Xor(team_id = match.home_team_id, type = "OWN_GOAL") THEN 1 ELSE 0

AwayInc(type, team_id, match) ==
    IF Xor(team_id = match.away_team_id, type = "OWN_GOAL") THEN 1 ELSE 0

\* UPDATE players SET <counter> = <counter> + 1 WHERE id = ?
Increment(rows, player_id, counter) ==
    [p \in DOMAIN rows |->
        IF p = player_id
        THEN CASE counter = "goals" -> [rows[p] EXCEPT !.goals = @ + 1]
               [] counter = "yellow_cards" -> [rows[p] EXCEPT !.yellow_cards = @ + 1]
               [] counter = "red_cards" -> [rows[p] EXCEPT !.red_cards = @ + 1]
        ELSE rows[p]]

\* an own goal credited to the player it names as a goal
CounterOfOwnGoalCredited(type, player_id) ==
    IF player_id = NULL THEN "none"
    ELSE CASE type \in {"GOAL", "OWN_GOAL"} -> "goals"
           [] type = "YELLOW" -> "yellow_cards"
           [] type = "RED" -> "red_cards"
           [] OTHER -> "none"

\* a sending-off booked on the yellow-card counter
CounterOfSendingOffBooked(type, player_id) ==
    IF player_id = NULL THEN "none"
    ELSE CASE type = "GOAL" -> "goals"
           [] type \in {"YELLOW", "RED"} -> "yellow_cards"
           [] OTHER -> "none"

\* the player counter an event of this type bumps, if any
CounterOf(type, player_id) ==
    IF player_id = NULL THEN "none"
    ELSE CASE type = "GOAL" -> "goals"
           [] type = "YELLOW" -> "yellow_cards"
           [] type = "RED" -> "red_cards"
           [] OTHER -> "none"

SubmitEvent(id, minute, type, player_id, team_id) ==
    IF type \notin EventTypes
    THEN /\ res' = Response("event", 400)
         /\ UNCHANGED store
    ELSE IF ~EventRowAccepted(id, minute, type, Affinity(player_id), Affinity(team_id))
    THEN \* the INSERT throws; nothing later in the handler runs
         /\ res' = Response("event", 500)
         /\ UNCHANGED store
    ELSE LET eid == sqlite_sequence.match_events + 1
             row == [match_id |-> id, minute |-> minute, type |-> type,
                     player_id |-> Affinity(player_id), team_id |-> Affinity(team_id)]
             found == id \in DOMAIN matches
             scoring == type \in {"GOAL", "OWN_GOAL"}
             counter == CounterOf(type, player_id)
         IN  /\ match_events' = With(match_events, eid, row)
             /\ sqlite_sequence' = [sqlite_sequence EXCEPT !.match_events = eid]
             /\ IF scoring /\ ~found
                THEN \* match is undefined: reading match.home_team_id throws
                     /\ res' = Response("event", 500)
                     /\ UNCHANGED <<matches, players>>
                ELSE /\ matches' =
                          IF scoring
                          THEN [matches EXCEPT
                                  ![id].home_score = @ + HomeInc(type, team_id, matches[id]),
                                  ![id].away_score = @ + AwayInc(type, team_id, matches[id])]
                          ELSE matches
                     /\ players' = IF counter = "none" THEN players
                                   ELSE Increment(players, Affinity(player_id), counter)
                     /\ res' = Response("event", 201)
             /\ UNCHANGED <<teams, competitions, registrations, squad_at_reg>>

-----------------------------------------------------------------------------
(* POST /api/matches/:id/event, one store statement at a time.  A submission *)
(* keeps the handler's locals: the body, and the match row it read.         *)

\* the score UPDATE written from the row the handler read instead of the
\* stored one
ScoreAfterUpdateFromRead(stored, read, inc) == read + inc

\* SET home_score = home_score + ?: relative to the stored value
ScoreAfterUpdate(stored, read, inc) == stored + inc

\* the handler is left with the response sent
Answered(r, status) ==
    /\ submissions' = [submissions EXCEPT ![r].pc = "done", ![r].status = status]
    /\ res' = Response("event", status)

\* the handler moves on to its next statement
Goto(r, pc) ==
    /\ submissions' = [submissions EXCEPT ![r].pc = pc]
    /\ UNCHANGED res

\* the request arrives and its type is looked at
Arrive(r, id, minute, type, player_id, team_id) ==
    /\ submissions[r].pc = "idle"
    /\ r > 1 => submissions[r - 1].pc # "idle"
    /\ LET s == [NoSubmission EXCEPT !.id = id, !.minute = minute, !.type = type,
                                     !.player_id = player_id, !.team_id = team_id]
       IN  IF type \notin EventTypes
           THEN /\ submissions' = [submissions EXCEPT
                                      ![r] = [s EXCEPT !.pc = "done", !.status = 400]]
                /\ res' = Response("event", 400)
           ELSE /\ submissions' = [submissions EXCEPT ![r] = [s EXCEPT !.pc = "insert"]]
                /\ UNCHANGED res
    /\ UNCHANGED store

\* INSERT INTO match_events
StmtInsert(r) ==
    LET s == submissions[r]
    IN  /\ s.pc = "insert"
        /\ IF ~EventRowAccepted(s.id, s.minute, s.type,
                                Affinity(s.player_id), Affinity(s.team_id))
           THEN /\ Answered(r, 500)
                /\ UNCHANGED store
           ELSE LET eid == sqlite_sequence.match_events + 1
                    row == [match_id |-> s.id, minute |-> s.minute, type |-> s.type,
                            player_id |-> Affinity(s.player_id),
                            team_id |-> Affinity(s.team_id)]
                IN  /\ match_events' = With(match_events, eid, row)
                    /\ sqlite_sequence' = [sqlite_sequence EXCEPT !.match_events = eid]
                    /\ Goto(r, "select")
                    /\ UNCHANGED <<teams, players, competitions, registrations,
                                   matches, squad_at_reg>>

\* SELECT * FROM matches WHERE id = ?, and the tests on type that follow it
StmtSelect(r) ==
    LET s == submissions[r]
        scoring == s.type \in {"GOAL", "OWN_GOAL"}
        counter == CounterOf(s.type, s.player_id)
    IN  /\ s.pc = "select"
        /\ IF s.id \notin DOMAIN matches
           THEN IF scoring
                THEN Answered(r, 500)
                ELSE IF counter # "none" THEN Goto(r, "player") ELSE Answered(r, 201)
           ELSE /\ submissions' = [submissions EXCEPT
                      ![r].match = matches[s.id],
                      ![r].pc = IF scoring THEN "score"
                                ELSE IF counter # "none" THEN "player" ELSE "done",
                      ![r].status = IF ~scoring /\ counter = "none" THEN 201 ELSE @]
                /\ res' = IF ~scoring /\ counter = "none"
                          THEN Response("event", 201) ELSE res
        /\ UNCHANGED store

\* UPDATE matches SET home_score = home_score + ?, away_score = away_score + ?
StmtUpdateScore(r) ==
    LET s == submissions[r]
        counter == CounterOf(s.type, s.player_id)
    IN  /\ s.pc = "score"
        /\ matches' =
             [m \in DOMAIN matches |->
                IF m = s.id
                THEN [matches[m] EXCEPT
                        !.home_score = ScoreAfterUpdate(@, s.match.home_score,
                                           HomeInc(s.type, s.team_id, s.match)),
                        !.away_score = ScoreAfterUpdate(@, s.match.away_score,
                                           AwayInc(s.type, s.team_id, s.match))]
                ELSE matches[m]]
        /\ IF counter # "none" THEN Goto(r, "player") ELSE Answered(r, 201)
        /\ UNCHANGED <<teams, players, competitions, registrations, match_events,
                       sqlite_sequence, squad_at_reg>>

\* UPDATE players SET <counter> = <counter> + 1 WHERE id = ?
StmtUpdatePlayer(r) ==
    LET s == submissions[r]
    IN  /\ s.pc = "player"
        /\ players' = Increment(players, Affinity(s.player_id),
                                CounterOf(s.type, s.player_id))
        /\ Answered(r, 201)
        /\ UNCHANGED <<teams, competitions, registrations, matches, match_events,
                       sqlite_sequence, squad_at_reg>>

-----------------------------------------------------------------------------
(* GET /api/standings/:competitionId *)

\* The team names of the model.  The last two are one name to a reader and two
\* strings to the store: E-acute as the single code point U+00C9, and as E
\* followed by the combining acute accent U+0301.
ErdComposed == "<U+00C9>rd FC"
ErdDecomposed == "E<U+0301>rd FC"
TeamNames == {"Falcon FC", "River United", ErdComposed, ErdDecomposed}

\* the place of a name in the collation order: canonically equivalent strings
\* share it, and E with an accent sorts before F
CollationKey(name) ==
    CASE name = ErdComposed -> 1
      [] name = ErdDecomposed -> 1
      [] name = "Falcon FC" -> 2
      [] name = "River United" -> 3

\* String.prototype.localeCompare: negative, zero or positive
localeCompare(a, b) == CollationKey(a) - CollationKey(b)

ZeroRow(team_id, name) ==
    [team_id |-> team_id, team |-> name,
     P |-> 0, W |-> 0, D |-> 0, L |-> 0, GF |-> 0, GA |-> 0, GD |-> 0, PTS |-> 0]

\* the body of the loop over the finished matches, for one match m
ApplyMatch(table, m) ==
    IF m.home_team_id \notin DOMAIN table \/ m.away_team_id \notin DOMAIN table
    THEN table
    ELSE LET h == m.home_team_id
             a == m.away_team_id
             played == [table EXCEPT
                 ![h].P = @ + 1, ![a].P = @ + 1,
                 ![h].GF = @ + m.home_score, ![h].GA = @ + m.away_score,
                 ![a].GF = @ + m.away_score, ![a].GA = @ + m.home_score]
             diffed == [played EXCEPT
                 ![h].GD = played[h].GF - played[h].GA,
                 ![a].GD = played[a].GF - played[a].GA]
         IN  IF m.home_score > m.away_score
             THEN [diffed EXCEPT ![h].W = @ + 1, ![a].L = @ + 1, ![h].PTS = @ + 3]
             ELSE IF m.home_score < m.away_score
             THEN [diffed EXCEPT ![a].W = @ + 1, ![h].L = @ + 1, ![a].PTS = @ + 3]
             ELSE [diffed EXCEPT ![h].D = @ + 1, ![a].D = @ + 1,
                                 ![h].PTS = @ + 1, ![a].PTS = @ + 1]

\* for (const m of matches): ids is the set of the rows still to visit
RECURSIVE Accumulate(_, _)
Accumulate(table, ids) ==
    IF ids = {} THEN table
    ELSE LET id == CHOOSE i \in ids : \A j \in ids : i <= j
         IN  Accumulate(ApplyMatch(table, matches[id]), ids \ {id})

\* the comparator with the goal difference ascending
compareRowsGoalDifferenceAscending(a, b) ==
    IF b.PTS - a.PTS # 0 THEN b.PTS - a.PTS
    ELSE IF a.GD - b.GD # 0 THEN a.GD - b.GD
    ELSE IF b.GF - a.GF # 0 THEN b.GF - a.GF
    ELSE localeCompare(a.team, b.team)

\* the comparator handed to sort: the first non-zero difference
compareRows(a, b) ==
    IF b.PTS - a.PTS # 0 THEN b.PTS - a.PTS
    ELSE IF b.GD - a.GD # 0 THEN b.GD - a.GD
    ELSE IF b.GF - a.GF # 0 THEN b.GF - a.GF
    ELSE localeCompare(a.team, b.team)

\* row put into an already sorted sequence, behind every row it does not precede
InsertRow(sorted, row) ==
    LET before == {i \in 1..Len(sorted) : compareRows(sorted[i], row) <= 0}
        k == IF before = {} THEN 0 ELSE Max(before)
    IN  SubSeq(sorted, 1, k) \o <<row>> \o SubSeq(sorted, k + 1, Len(sorted))

\* Array.prototype.sort, which is stable
RECURSIVE SortRows(_)
SortRows(rows) ==
    IF rows = <<>> THEN <<>>
    ELSE InsertRow(SortRows(SubSeq(rows, 1, Len(rows) - 1)), rows[Len(rows)])

\* the orders a SELECT without ORDER BY may return the rows of `ids` in
RowOrders(ids) ==
    {o \in [1..Cardinality(ids) -> ids] : \A i, j \in DOMAIN o : o[i] = o[j] => i = j}

\* the registered teams of the competition
RegisteredTeams(cid) == {t \in DOMAIN teams : <<t, cid>> \in registrations}

\* the matches of the competition, finished or not
MatchesOfAnyStatus(cid) ==
    {m \in DOMAIN matches : matches[m].competition_id = cid}

\* the finished matches of the competition
FinishedMatches(cid) ==
    {m \in DOMAIN matches :
        matches[m].competition_id = cid /\ matches[m].status = "FINISHED"}

\* the rows of the response when the teams query returns its rows in `order`
Standings(cid, order) ==
    LET table == Accumulate([t \in RegisteredTeams(cid) |-> ZeroRow(t, teams[t].name)],
                            FinishedMatches(cid))
    IN  SortRows([i \in DOMAIN order |-> table[order[i]]])

GetStandings(cid) ==
    \E order \in RowOrders(RegisteredTeams(cid)) :
        /\ res' = [op |-> "standings", status |-> 200, cid |-> cid,
                   rows |-> Standings(cid, order)]
        /\ UNCHANGED store

-----------------------------------------------------------------------------
(* Server start on an existing football.db: schema.sql creates no table that *)
(* exists, then seed.sql runs statement by statement, each committed on its  *)
(* own.  OR IGNORE skips a row that breaks a UNIQUE or PRIMARY KEY           *)
(* constraint, after the row has drawn its AUTOINCREMENT id; a broken        *)
(* FOREIGN KEY fails the statement, db.exec throws and the process ends      *)
(* before app.listen.                                                        *)

\* INSERT OR IGNORE into a table with UNIQUE(name), rows seed[i..] in turn;
\* table is [rows, seq]
RECURSIVE InsertOrIgnoreNamed(_, _, _)
InsertOrIgnoreNamed(table, seed, i) ==
    IF i > Len(seed) THEN table
    ELSE InsertOrIgnoreNamed(
            [rows |-> IF NameTaken(table.rows, seed[i].name, NULL) THEN table.rows
                      ELSE With(table.rows, table.seq + 1, seed[i]),
             seq |-> table.seq + 1],
            seed, i + 1)

\* INSERT OR IGNORE into a table with no UNIQUE constraint but its id: every
\* row of the seed is a new row
InsertAll(table, seed) ==
    [rows |-> [id \in DOMAIN table.rows \cup (table.seq + 1 .. table.seq + Len(seed)) |->
                  IF id \in DOMAIN table.rows THEN table.rows[id]
                  ELSE seed[id - table.seq]],
     seq |-> table.seq + Len(seed)]

\* the clock's second at a start, plus one day: that of the first seeding
\* still, or a later one
StartDateTimes == {"seed+1day", "restart+1day"}

\* the server is up: its last start reached app.listen
Listening == ~(res.op = "listen" /\ res.status = 500)

Restart(date_time) ==
    LET t == InsertOrIgnoreNamed([rows |-> teams, seq |-> sqlite_sequence.teams],
                                 SeedTeams, 1)
        p == InsertAll([rows |-> players, seq |-> sqlite_sequence.players], SeedPlayers)
        c == InsertOrIgnoreNamed([rows |-> competitions,
                                  seq |-> sqlite_sequence.competitions],
                                 SeedCompetitions, 1)
        r == SeedRegistrations \ registrations
        m == [SeedMatches[1] EXCEPT !.date_time = date_time]
        playersOK == \A i \in DOMAIN SeedPlayers : SeedPlayers[i].team_id \in DOMAIN t.rows
        registrationsOK == \A x \in r : x[1] \in DOMAIN t.rows /\ x[2] \in DOMAIN c.rows
        matchIgnored == \E k \in DOMAIN matches :
                            /\ matches[k].home_team_id = m.home_team_id
                            /\ matches[k].away_team_id = m.away_team_id
                            /\ matches[k].date_time = m.date_time
        matchOK == /\ m.competition_id \in DOMAIN c.rows
                   /\ m.home_team_id \in DOMAIN t.rows
                   /\ m.away_team_id \in DOMAIN t.rows
        mid == sqlite_sequence.matches + 1
        \* the number of statements of seed.sql that ran to their end
        ran == IF ~playersOK THEN 1
               ELSE IF ~registrationsOK THEN 3
               ELSE IF ~(matchIgnored \/ matchOK) THEN 4
               ELSE 5
    IN  /\ sqlite_sequence.teams < MaxStarts * Len(SeedTeams)
        /\ teams' = t.rows
        /\ players' = IF ran >= 2 THEN p.rows ELSE players
        /\ competitions' = IF ran >= 3 THEN c.rows ELSE competitions
        /\ registrations' = IF ran >= 4 THEN registrations \cup r ELSE registrations
        /\ squad_at_reg' =
              IF ran >= 4
              THEN [x \in registrations \cup r |->
                       IF x \in registrations THEN squad_at_reg[x]
                       ELSE SquadQuery(p.rows, x[1])]
              ELSE squad_at_reg
        /\ matches' = IF ran >= 5 /\ ~matchIgnored THEN With(matches, mid, m) ELSE matches
        /\ sqlite_sequence' =
              [sqlite_sequence EXCEPT
                 !.teams = t.seq,
                 !.players = IF ran >= 2 THEN p.seq ELSE @,
                 !.competitions = IF ran >= 3 THEN c.seq ELSE @,
                 !.matches = IF ran >= 5 THEN mid ELSE @]
        /\ res' = Response("listen", IF ran = 5 THEN 200 ELSE 500)
        /\ UNCHANGED <<match_events, submissions>>

-----------------------------------------------------------------------------
(* Requests: every handler with its inputs drawn from the given sets. *)

DoCreateTeam(names) ==
    /\ sqlite_sequence.teams < MaxTeams
    /\ \E name \in names : CreateTeam(name)
    /\ UNCHANGED submissions

DoUpdateTeam(ids, names) ==
    /\ \E id \in ids, name \in names : UpdateTeam(id, name)
    /\ UNCHANGED submissions

DoDeleteTeam(ids) ==
    /\ \E id \in ids : DeleteTeam(id)
    /\ UNCHANGED submissions

DoCreatePlayer(team_ids, ages) ==
    /\ sqlite_sequence.players < MaxPlayers
    /\ \E team_id \in team_ids, age \in ages : CreatePlayer(team_id, age)
    /\ UNCHANGED submissions

DoUpdatePlayer(ids, bodies) ==
    /\ \E id \in ids, body \in bodies : UpdatePlayer(id, body)
    /\ UNCHANGED submissions

DoDeletePlayer(ids) ==
    /\ \E id \in ids : DeletePlayer(id)
    /\ UNCHANGED submissions

DoCreateCompetition(rows) ==
    /\ sqlite_sequence.competitions < MaxCompetitions
    /\ \E row \in rows : CreateCompetition(row)
    /\ UNCHANGED submissions

DoRegister(competition_ids, team_ids) ==
    /\ \E competition_id \in competition_ids, team_id \in team_ids :
           Register(competition_id, team_id)
    /\ UNCHANGED submissions

DoCreateMatch(competition_ids, home_ids, away_ids, date_times) ==
    /\ sqlite_sequence.matches < MaxMatches
    /\ \E competition_id \in competition_ids, home_team_id \in home_ids,
          away_team_id \in away_ids, date_time \in date_times :
            CreateMatch(competition_id, home_team_id, away_team_id, date_time)
    /\ UNCHANGED submissions

DoSetStatus(ids, statuses) ==
    /\ \E id \in ids, status \in statuses : SetStatus(id, status)
    /\ UNCHANGED submissions

DoSubmitEvent(ids, minutes, types, player_ids, team_ids) ==
    /\ sqlite_sequence.match_events < MaxEvents
    /\ \E id \in ids, minute \in minutes, type \in types,
          player_id \in player_ids, team_id \in team_ids :
            SubmitEvent(id, minute, type, player_id, team_id)
    /\ UNCHANGED submissions

DoGetStandings(cids) ==
    /\ \E cid \in cids : GetStandings(cid)
    /\ UNCHANGED submissions

-----------------------------------------------------------------------------
(* Inputs shared by the specifications. *)

MinuteInputs == {45, 131}
TypeInputs == EventTypes \cup {"PENALTY"}
StatusInputs == Statuses \cup {"ABANDONED"}
DateTimeInputs == {"2026-01-01T18:00"}

\* a competition any squad of up to three players may enter
OpenLeague ==
    [name |-> "Open League", type |-> "LEAGUE",
     min_squad |-> 0, max_squad |-> 3, age_limit |-> NULL]

\* a competition for squads of one to three players aged 25 or less
FriendlyCup ==
    [name |-> "Friendly Cup", type |-> "TOURNAMENT",
     min_squad |-> 1, max_squad |-> 3, age_limit |-> 25]

-----------------------------------------------------------------------------
(* Spec: every handler, each with few accepted inputs and the inputs it     *)
(* rejects.  Team 3, player 7 (of team 3), the Friendly Cup and match 2     *)
(* (3 v 1) are the rows the requests create; goals are credited to team 2   *)
(* and to player 1 or 4; player 1 and team 2 are the rows deleted.          *)

Next ==
    \/ DoCreateTeam({ErdComposed})
    \/ DoUpdateTeam({1}, {ErdDecomposed, "River United"})
    \/ DoDeleteTeam({2})
    \/ DoCreatePlayer({3}, {9, 22})
    \/ DoUpdatePlayer({1}, {[goals |-> 0], [age |-> 56], [full_name |-> "J. Toth"]})
    \/ DoDeletePlayer({1})
    \/ DoCreateCompetition({FriendlyCup})
    \/ DoRegister({3}, {1, 3})
    \/ DoCreateMatch({NULL}, {3}, {1, 3}, DateTimeInputs)
    \/ DoSetStatus({1}, StatusInputs)
    \/ DoSubmitEvent({1, 2}, MinuteInputs, {"GOAL", "PENALTY"}, {1, 4}, {2})
    \/ DoGetStandings({1})

Spec == Init /\ [][Next]_vars

-----------------------------------------------------------------------------
(* SpecEvents: the event processor, with every event type, on the seeded    *)
(* match (1 v 2) and on a created one with the sides swapped (2 v 1).       *)

EventMatchIds == {1, 2}
EventPlayerIds == {NULL, 1, 9}
EventTeamIds == {NULL, 1, 2, 3}

NextEvents ==
    \/ DoCreateMatch({NULL}, {2}, {1}, DateTimeInputs)
    \/ DoSubmitEvent(EventMatchIds, MinuteInputs, TypeInputs, EventPlayerIds, EventTeamIds)

SpecEvents == Init /\ [][NextEvents]_vars

-----------------------------------------------------------------------------
(* SpecStandings: the standings of the seeded league and of a created one   *)
(* that teams 1, 2 and 3 may enter, with matches 1 v 2 and 1 v 3.           *)

NextStandings ==
    \/ DoCreateTeam({ErdComposed})
    \/ DoUpdateTeam({2}, {ErdDecomposed})
    \/ DoCreateCompetition({OpenLeague})
    \/ DoRegister({3}, {1, 2, 3})
    \/ DoCreateMatch({3}, {1}, {2, 3}, DateTimeInputs)
    \/ DoSetStatus({1, 2, 3}, {"FINISHED"})
    \/ DoSubmitEvent({2, 3}, {45}, {"GOAL"}, {NULL}, {1, 2})
    \/ DoGetStandings({1, 3})

SpecStandings == Init /\ [][NextStandings]_vars

-----------------------------------------------------------------------------
(* SpecSeed: the server started again on the store it left, between         *)
(* requests that rename team 1, delete team 2 or a player and move the      *)
(* seeded match on; no request is served after a start that failed.         *)

NextSeed ==
    \/ \E date_time \in StartDateTimes : Restart(date_time)
    \/ Listening /\ DoUpdateTeam({1}, {ErdComposed})
    \/ Listening /\ DoDeleteTeam({2})
    \/ Listening /\ DoDeletePlayer({1, 7})
    \/ Listening /\ DoSetStatus({1}, Statuses)

SpecSeed == Init /\ [][NextSeed]_vars

-----------------------------------------------------------------------------
(* SpecLog: goals, own goals and cards on the seeded match (1 v 2) in every  *)
(* status, for either side, for no team, for a third team (team 3, once     *)
(* created) and with the team id sent as a string; the third team and the   *)
(* scorer are deleted afterwards.                                            *)

LogTeamIds == {NULL, 1, 2, 3, Spelled(1)}

NextLog ==
    \/ DoCreateTeam({ErdComposed})
    \/ DoSetStatus({1}, Statuses)
    \/ DoSubmitEvent({1}, {45}, {"GOAL", "OWN_GOAL", "YELLOW"}, {NULL, 1}, LogTeamIds)
    \/ DoDeletePlayer({1})
    \/ DoDeleteTeam({3})

SpecLog == Init /\ [][NextLog]_vars

-----------------------------------------------------------------------------
(* SpecInterleaved: up to MaxSubmissions event submissions for the seeded    *)
(* match and player 1, their statements in every order.                      *)

InterleavedTypes == {"GOAL", "OWN_GOAL", "YELLOW", "RED", "PENALTY"}
InterleavedTeamIds == {NULL, 1}

NextInterleaved ==
    \/ \E r \in 1..MaxSubmissions, minute \in MinuteInputs,
          type \in InterleavedTypes, team_id \in InterleavedTeamIds :
            Arrive(r, 1, minute, type, 1, team_id)
    \/ \E r \in 1..MaxSubmissions : StmtInsert(r)
    \/ \E r \in 1..MaxSubmissions : StmtSelect(r)
    \/ \E r \in 1..MaxSubmissions : StmtUpdateScore(r)
    \/ \E r \in 1..MaxSubmissions : StmtUpdatePlayer(r)

SpecInterleaved == Init /\ [][NextInterleaved]_vars

-----------------------------------------------------------------------------
(* Properties of the event processor. *)

\* a step that appended a row to match_events, and the row
Recorded == sqlite_sequence'.match_events = sqlite_sequence.match_events + 1
NewEvent == match_events'[sqlite_sequence'.match_events]

\* the scores of match m moved by exactly dh and da in the step
ScoreMoved(m, dh, da) ==
    /\ matches'[m].home_score = matches[m].home_score + dh
    /\ matches'[m].away_score = matches[m].away_score + da

\* C1: a GOAL of the home team or an OWN_GOAL of the away team adds exactly 1
\* to home_score and leaves away_score; a GOAL of the away team or an OWN_GOAL
\* of the home team adds exactly 1 to away_score and leaves home_score.
C1_ScoreCredit ==
    [][Recorded =>
        LET e == NewEvent
            m == e.match_id
            home == matches[m].home_team_id
            away == matches[m].away_team_id
        IN  /\ (e.type = "GOAL" /\ e.team_id = home) => ScoreMoved(m, 1, 0)
            /\ (e.type = "GOAL" /\ e.team_id = away) => ScoreMoved(m, 0, 1)
            /\ (e.type = "OWN_GOAL" /\ e.team_id = home) => ScoreMoved(m, 0, 1)
            /\ (e.type = "OWN_GOAL" /\ e.team_id = away) => ScoreMoved(m, 1, 0)]_vars

\* an own goal of the home side of the created match (2 v 1) stands as its
\* only goal, for the away side, after a goal was recorded in the seeded match
C1_Witness ==
    /\ 2 \in DOMAIN matches
    /\ matches[2].home_score = 0 /\ matches[2].away_score = 1
    /\ matches[1].home_score + matches[1].away_score = 1
    /\ \E e \in DOMAIN match_events :
          /\ match_events[e].match_id = 2
          /\ match_events[e].type = "OWN_GOAL"
          /\ match_events[e].team_id = matches[2].home_team_id

\* C2: a GOAL or OWN_GOAL whose team_id is neither side of the match (or is
\* absent) is recorded and leaves both scores of the match as they were.
C2_NeitherSideNoScore ==
    [][Recorded =>
        LET e == NewEvent
            m == e.match_id
        IN  (/\ e.type \in {"GOAL", "OWN_GOAL"}
             /\ e.team_id # matches[m].home_team_id
             /\ e.team_id # matches[m].away_team_id) => ScoreMoved(m, 0, 0)]_vars

\* C3: a GOAL naming a player adds exactly 1 to that player's goals, whatever
\* its team_id; an OWN_GOAL leaves the goals of the player it names.
C3_PlayerGoals ==
    [][Recorded =>
        LET e == NewEvent
            p == e.player_id
        IN  /\ (e.type = "GOAL" /\ p # NULL) => players'[p].goals = players[p].goals + 1
            /\ (e.type = "OWN_GOAL" /\ p # NULL) => players'[p].goals = players[p].goals]_vars

\* player 1 of team 1 is named by a goal credited to team 2 and by an own goal,
\* and has one goal
C3_Witness ==
    /\ players[1].goals = 1
    /\ \E e \in DOMAIN match_events :
          /\ match_events[e].type = "GOAL"
          /\ match_events[e].player_id = 1
          /\ match_events[e].team_id = 2
    /\ \E e \in DOMAIN match_events :
          /\ match_events[e].type = "OWN_GOAL"
          /\ match_events[e].player_id = 1

\* the submissions the claim calls failing
C8_Fails(id, minute, type, player_id, team_id) ==
    \/ type \notin {"GOAL", "ASSIST", "YELLOW", "RED", "SUB", "OWN_GOAL"}
    \/ minute < 0
    \/ minute > 130
    \/ id \notin DOMAIN matches
    \/ player_id # NULL /\ player_id \notin DOMAIN players
    \/ team_id # NULL /\ team_id \notin DOMAIN teams

\* C8: a submission with an unrecognized type, a minute outside 0..130, or a
\* match, player or team id that names no row is answered with an error and
\* leaves every match, every player and the event log as they were.  Every
\* submission is either answered with an error, and then changed nothing, or
\* recorded, and then is none of the failing ones.
C8_NoPartialApply ==
    [][res'.op = "event" =>
        IF res'.status >= 400
        THEN UNCHANGED <<matches, players, match_events>>
        ELSE /\ Recorded
             /\ ~C8_Fails(NewEvent.match_id, NewEvent.minute, NewEvent.type,
                          NewEvent.player_id, NewEvent.team_id)]_vars

\* a rejected submission was answered after a goal had been recorded: the
\* score, the scorer's counter and the log are those the goal left
C8_Witness ==
    /\ res = Response("event", 500)
    /\ DOMAIN match_events = {1}
    /\ match_events[1].type = "GOAL"
    /\ matches[1].home_score = 1
    /\ players[1].goals = 1

-----------------------------------------------------------------------------
(* Properties of the standings. *)

RECURSIVE SumOver(_, _)
SumOver(f, S) ==
    IF S = {} THEN 0
    ELSE LET x == CHOOSE y \in S : TRUE IN f[x] + SumOver(f, S \ {x})

\* the teams with a registration row for the competition
C4_Registered(cid) == {r[1] : r \in {x \in registrations : x[2] = cid}}

\* the matches that count: of the competition, FINISHED, both sides registered
C4_Counted(cid) ==
    {m \in DOMAIN matches :
        /\ matches[m].competition_id = cid
        /\ matches[m].status = "FINISHED"
        /\ matches[m].home_team_id \in C4_Registered(cid)
        /\ matches[m].away_team_id \in C4_Registered(cid)}

\* the goals of team t and of its opponent in match m
C4_GoalsFor(t, m) ==
    IF matches[m].home_team_id = t THEN matches[m].home_score ELSE matches[m].away_score
C4_GoalsAgainst(t, m) ==
    IF matches[m].home_team_id = t THEN matches[m].away_score ELSE matches[m].home_score

\* the row of team t as the aggregates over the matches that count
C4_Row(cid, t) ==
    LET mine == {m \in C4_Counted(cid) :
                    matches[m].home_team_id = t \/ matches[m].away_team_id = t}
        won == {m \in mine : C4_GoalsFor(t, m) > C4_GoalsAgainst(t, m)}
        drawn == {m \in mine : C4_GoalsFor(t, m) = C4_GoalsAgainst(t, m)}
        lost == {m \in mine : C4_GoalsFor(t, m) < C4_GoalsAgainst(t, m)}
        gf == SumOver([m \in mine |-> C4_GoalsFor(t, m)], mine)
        ga == SumOver([m \in mine |-> C4_GoalsAgainst(t, m)], mine)
    IN  [team_id |-> t, team |-> teams[t].name,
         P |-> Cardinality(mine), W |-> Cardinality(won), D |-> Cardinality(drawn),
         L |-> Cardinality(lost), GF |-> gf, GA |-> ga, GD |-> gf - ga,
         PTS |-> 3 * Cardinality(won) + Cardinality(drawn)]

\* C4: the standings hold exactly one row per registered team of the
\* competition, and each row is the aggregate (3 points a win, 1 a draw,
\* GD = GF - GA) over the FINISHED matches of the competition whose two sides
\* are registered; other matches count for no row, and a team with no such
\* match has an all-zero row.
C4_StandingsAggregate ==
    res.op = "standings" =>
        /\ Len(res.rows) = Cardinality(C4_Registered(res.cid))
        /\ \A t \in C4_Registered(res.cid) :
              \E i \in DOMAIN res.rows : res.rows[i] = C4_Row(res.cid, t)

\* the standings of the created league were asked for with teams 1 and 2
\* registered: 1 v 2 is finished 1-0 and counts, 1 v 3 is finished with a goal
\* and does not, team 3 having no registration
C4_Witness ==
    /\ res.op = "standings" /\ res.cid = 3
    /\ C4_Registered(3) = {1, 2}
    /\ \E m \in DOMAIN matches :
          /\ matches[m].competition_id = 3 /\ matches[m].status = "FINISHED"
          /\ matches[m].away_team_id = 3
          /\ matches[m].home_score = 1
    /\ \E i \in DOMAIN res.rows :
          /\ res.rows[i].team_id = 1
          /\ res.rows[i].P = 1 /\ res.rows[i].W = 1 /\ res.rows[i].GF = 1
          /\ res.rows[i].PTS = 3
    /\ \E i \in DOMAIN res.rows :
          /\ res.rows[i].team_id = 2
          /\ res.rows[i].L = 1 /\ res.rows[i].GD = -1

\* row a ranks above row b: more points, then the better goal difference, then
\* more goals scored, then the name that collates first
C5_Above(a, b) ==
    \/ a.PTS > b.PTS
    \/ a.PTS = b.PTS /\ a.GD > b.GD
    \/ a.PTS = b.PTS /\ a.GD = b.GD /\ a.GF > b.GF
    \/ a.PTS = b.PTS /\ a.GD = b.GD /\ a.GF = b.GF
         /\ CollationKey(a.team) < CollationKey(b.team)

\* C5 as amended: whenever row a ranks above row b, a comes before b; two
\* rows neither of which ranks above the other tie on points, goal difference
\* and goals scored and have names that collate as equal.
C5_StandingsSorted ==
    res.op = "standings" =>
        \A i, j \in DOMAIN res.rows :
            /\ C5_Above(res.rows[i], res.rows[j]) => i < j
            /\ (i # j /\ ~C5_Above(res.rows[i], res.rows[j])
                      /\ ~C5_Above(res.rows[j], res.rows[i]))
               => /\ res.rows[i].PTS = res.rows[j].PTS
                  /\ res.rows[i].GD = res.rows[j].GD
                  /\ res.rows[i].GF = res.rows[j].GF
                  /\ localeCompare(res.rows[i].team, res.rows[j].team) = 0

\* C5 as stated: a comes before b if and only if a's key ranks at or above
\* b's, and no two rows (their names being unique) compare equal.
C5_TotalOrder ==
    res.op = "standings" =>
        \A i, j \in DOMAIN res.rows :
            i # j => /\ i < j <=> ~C5_Above(res.rows[j], res.rows[i])
                     /\ compareRows(res.rows[i], res.rows[j]) # 0

\* three rows: the winner of 1 v 2 first, then the two teams without a point,
\* the one that did not play before the one that lost
C5_Witness ==
    /\ res.op = "standings" /\ Len(res.rows) = 3
    /\ res.rows[1].PTS = 3
    /\ res.rows[2].PTS = 0 /\ res.rows[2].GD = 0 /\ res.rows[2].team_id = 3
    /\ res.rows[3].PTS = 0 /\ res.rows[3].GD < 0

-----------------------------------------------------------------------------
(* Properties of the store under every handler. *)

StatusRank(status) ==
    CASE status = "SCHEDULED" -> 0
      [] status = "IN_PLAY" -> 1
      [] status = "FINISHED" -> 2

\* C6: the status of a match only moves forward along
\* SCHEDULED -> IN_PLAY -> FINISHED: no step takes a match back.
C6_StatusForward ==
    [][\A m \in DOMAIN matches \cap DOMAIN matches' :
          StatusRank(matches'[m].status) >= StatusRank(matches[m].status)]_vars

\* C7: no step lowers a counter of a player, and only an event submission
\* changes one.
C7_CountersMonotone ==
    [][\A p \in DOMAIN players \cap DOMAIN players' :
          /\ players'[p].appearances >= players[p].appearances
          /\ players'[p].goals >= players[p].goals
          /\ players'[p].assists >= players[p].assists
          /\ players'[p].yellow_cards >= players[p].yellow_cards
          /\ players'[p].red_cards >= players[p].red_cards
          /\ ( <<players'[p].appearances, players'[p].goals, players'[p].assists,
                 players'[p].yellow_cards, players'[p].red_cards>>
               # <<players[p].appearances, players[p].goals, players[p].assists,
                   players[p].yellow_cards, players[p].red_cards>>
               => res'.op = "event" )]_vars

\* C9 as stated: every recorded event stays in the log with the match,
\* minute, type, player and team it was created with, whatever the step.
C9_EventsImmutable ==
    [][\A e \in DOMAIN match_events :
          e \in DOMAIN match_events' /\ match_events'[e] = match_events[e]]_vars

\* C9 as amended: the log only grows at its end, and a recorded event keeps its
\* match, minute and type; it leaves the log only when its match is deleted
\* with one of the match's teams; its player_id changes only to NULL, when that
\* player is deleted (alone or with its team), and its team_id only to NULL,
\* when that team is deleted.
C9_EventsKeptOrCascaded ==
    [][/\ \A e \in DOMAIN match_events' \ DOMAIN match_events :
             \A old \in DOMAIN match_events : e > old
       /\ \A e \in DOMAIN match_events :
             LET was == match_events[e]
                 match == matches[was.match_id]
             IN  IF e \notin DOMAIN match_events'
                 THEN /\ was.match_id \notin DOMAIN matches'
                      /\ \/ match.home_team_id \notin DOMAIN teams'
                         \/ match.away_team_id \notin DOMAIN teams'
                 ELSE LET is == match_events'[e]
                      IN  /\ is.match_id = was.match_id
                          /\ is.minute = was.minute
                          /\ is.type = was.type
                          /\ \/ is.player_id = was.player_id
                             \/ /\ is.player_id = NULL
                                /\ was.player_id \notin DOMAIN players'
                          /\ \/ is.team_id = was.team_id
                             \/ /\ is.team_id = NULL
                                /\ was.team_id \notin DOMAIN teams']_vars

\* team 2 was deleted: the goals of the seeded match (1 v 2) left the log with
\* it, and the goal recorded after them in match 3 v 1 for team 2, by a player
\* of team 2, is still there, with neither a team nor a player
C9_Witness ==
    /\ 2 \notin DOMAIN teams
    /\ 1 \notin DOMAIN matches
    /\ DOMAIN match_events = {2}
    /\ match_events[2].match_id = 2
    /\ match_events[2].type = "GOAL"
    /\ match_events[2].team_id = NULL
    /\ match_events[2].player_id = NULL

\* C10: every registration was inserted for a squad that passed the
\* eligibility checks of its competition: a size within [min_squad, max_squad]
\* and, under an age limit, no player older than it.
C10_RegistrationsEligible ==
    \A r \in registrations :
        LET comp == competitions[r[2]]
            squad == squad_at_reg[r]
        IN  /\ squad.c >= comp.min_squad
            /\ squad.c <= comp.max_squad
            /\ comp.age_limit # NULL => squad.max_age <= comp.age_limit

-----------------------------------------------------------------------------
(* Properties of the card, assist and substitution events. *)

\* C11: an event of type YELLOW, RED, ASSIST or SUB leaves every match score
\* and every player's goals; a YELLOW naming a player adds exactly 1 to that
\* player's yellow_cards and changes nothing else of any player, a RED naming
\* a player does the same to red_cards, and an ASSIST or a SUB is recorded
\* and leaves every counter of every player, assists included.
C11_CardsAssistSub ==
    [][Recorded =>
        LET e == NewEvent
            p == e.player_id
        IN  /\ e.type \in {"YELLOW", "RED", "ASSIST", "SUB"} =>
                  /\ matches' = matches
                  /\ \A q \in DOMAIN players : players'[q].goals = players[q].goals
            /\ (e.type = "YELLOW" /\ p # NULL) =>
                  players' = [players EXCEPT ![p].yellow_cards = @ + 1]
            /\ (e.type = "RED" /\ p # NULL) =>
                  players' = [players EXCEPT ![p].red_cards = @ + 1]
            /\ e.type \in {"ASSIST", "SUB"} => players' = players]_vars

\* player 1 was shown a yellow and then a red card in the seeded match: one
\* of each on the player's row, no goal, no assist, the match still 0-0
C11_Witness ==
    /\ DOMAIN match_events = {1, 2}
    /\ match_events[1].type = "YELLOW" /\ match_events[1].player_id = 1
    /\ match_events[2].type = "RED" /\ match_events[2].player_id = 1
    /\ players[1].yellow_cards = 1 /\ players[1].red_cards = 1
    /\ players[1].goals = 0 /\ players[1].assists = 0
    /\ matches[1].home_score = 0 /\ matches[1].away_score = 0

\* an assist and a substitution naming player 1 are recorded and the
\* player's row is the seeded one
C11_WitnessAssistSub ==
    /\ DOMAIN match_events = {1, 2}
    /\ match_events[1].type = "ASSIST" /\ match_events[1].player_id = 1
    /\ match_events[2].type = "SUB" /\ match_events[2].player_id = 1
    /\ players[1] = NewPlayer(1, 28)

-----------------------------------------------------------------------------
(* Properties of interleaved event submissions. *)

\* the submission, run alone on the seeded store, is recorded
C12_AppliesAlone(s) ==
    /\ s.type \in {"GOAL", "ASSIST", "YELLOW", "RED", "SUB", "OWN_GOAL"}
    /\ s.minute >= 0 /\ s.minute <= 130
    /\ s.id \in DOMAIN SeedMatches
    /\ s.player_id = NULL \/ s.player_id \in DOMAIN SeedPlayers
    /\ s.team_id = NULL \/ s.team_id \in DOMAIN SeedTeams

\* what the submission, run alone, adds to the home score and to the away
\* score of match m
C12_HomeAlone(s, m) ==
    IF C12_AppliesAlone(s) /\ s.id = m
       /\ (\/ s.type = "GOAL" /\ s.team_id = SeedMatches[m].home_team_id
           \/ s.type = "OWN_GOAL" /\ s.team_id # SeedMatches[m].home_team_id)
    THEN 1 ELSE 0

C12_AwayAlone(s, m) ==
    IF C12_AppliesAlone(s) /\ s.id = m
       /\ (\/ s.type = "GOAL" /\ s.team_id = SeedMatches[m].away_team_id
           \/ s.type = "OWN_GOAL" /\ s.team_id # SeedMatches[m].away_team_id)
    THEN 1 ELSE 0

\* what the submission, run alone, adds to a counter of player p
C12_CounterAlone(s, p, type) ==
    IF C12_AppliesAlone(s) /\ s.player_id = p /\ s.type = type THEN 1 ELSE 0

C12_AllCompleted == \A r \in DOMAIN submissions : submissions[r].pc = "done"

\* C12: when every one of the event submissions for one match and one player
\* has completed, in whatever order their store statements ran, the scores of
\* the match and the counters of the player are their initial values plus
\* the sum of what each submission adds when run alone.
C12_NoLostIncrement ==
    C12_AllCompleted =>
        LET R == DOMAIN submissions
            Sum(f(_)) == SumOver([r \in R |-> f(submissions[r])], R)
            home(s) == C12_HomeAlone(s, 1)
            away(s) == C12_AwayAlone(s, 1)
            goals(s) == C12_CounterAlone(s, 1, "GOAL")
            yellow(s) == C12_CounterAlone(s, 1, "YELLOW")
            red(s) == C12_CounterAlone(s, 1, "RED")
        IN  /\ matches[1].home_score = SeedMatches[1].home_score + Sum(home)
            /\ matches[1].away_score = SeedMatches[1].away_score + Sum(away)
            /\ players[1].goals = SeedPlayers[1].goals + Sum(goals)
            /\ players[1].yellow_cards = SeedPlayers[1].yellow_cards + Sum(yellow)
            /\ players[1].red_cards = SeedPlayers[1].red_cards + Sum(red)
            /\ players[1].assists = SeedPlayers[1].assists
            /\ players[1].appearances = SeedPlayers[1].appearances

\* two goals of the home side by player 1 have completed, both handlers
\* having read the match at 0-0 before either wrote the score: 2-0, two goals
C12_Witness ==
    /\ C12_AllCompleted
    /\ \A r \in {1, 2} :
          /\ submissions[r].type = "GOAL"
          /\ submissions[r].team_id = 1
          /\ submissions[r].status = 201
          /\ submissions[r].match.home_score = 0
    /\ matches[1].home_score = 2
    /\ players[1].goals = 2

-----------------------------------------------------------------------------
(* Properties of the seed. *)

\* the five seeded tables are as the first run of the seed left them
C13_Seeded ==
    /\ teams = SeedTeams
    /\ players = SeedPlayers
    /\ competitions = SeedCompetitions
    /\ registrations = SeedRegistrations
    /\ matches = SeedMatches

\* C13: a server start that runs the seed on the store the first run of the
\* seed left keeps the teams, players, competitions, registrations and
\* matches of that store.
C13_SeedIdempotent ==
    [][(C13_Seeded /\ res'.op = "listen") =>
          /\ teams' = teams
          /\ players' = players
          /\ competitions' = competitions
          /\ registrations' = registrations
          /\ matches' = matches]_vars

-----------------------------------------------------------------------------
(* Properties of the score and the event log. *)

\* the events of match m, of the given type, whose team_id satisfies Credits
C14_Events(m, type, Credits(_)) ==
    {e \in DOMAIN match_events :
        /\ match_events[e].match_id = m
        /\ match_events[e].type = type
        /\ Credits(match_events[e].team_id)}

\* the score of a side of match m that the recorded events yield
C14_FromLog(m, side) ==
    LET Is(team_id) == team_id = side
        IsNot(team_id) == team_id # side
    IN  Cardinality(C14_Events(m, "GOAL", Is))
          + Cardinality(C14_Events(m, "OWN_GOAL", IsNot))

\* C14: the stored score of every match is what its recorded events yield:
\* home_score is the number of its GOAL events of the home team plus the
\* number of its OWN_GOAL events not of the home team, and away_score
\* likewise for the away team, in every status and after deletions.
C14_ScoreFromLog ==
    \A m \in DOMAIN matches :
        /\ matches[m].home_score = C14_FromLog(m, matches[m].home_team_id)
        /\ matches[m].away_score = C14_FromLog(m, matches[m].away_team_id)

====
